---- MODULE Spec2Model ----
(***************************************************************************)
(* Inspector Surface (assets/ui/js/inspector.surface.js).                  *)
(*                                                                         *)
(* A surface owns an insertion-ordered value map, a snapshot of it taken   *)
(* at construction, one editor per schema property, optional external      *)
(* parameter editors, and the rows of the inspector table.  The root       *)
(* surface owns the group manager.                                         *)
(***************************************************************************)
EXTENDS Integers, Sequences, FiniteSets, TLC

VARIABLES
    constructed,               \* the surfaces that exist
    parsedProperties,          \* [s]: this.parsedProperties.properties
    values,                    \* [s]: this.values, keys in insertion order
    originalValues,            \* [s]: this.originalValues
    editors,                   \* [s]: this.editors
    externalParameterEditors,  \* [s]: this.externalParameterEditors
    group,                     \* [s]: this.group, a group id
    tableContainer,            \* [s]: the table this.tableContainer holds
    container,                 \* [s]: this.container, and whether the table is in it
    options,                   \* [s]: this.options, TRUE for a callback that is set
    popupCounter,              \* [s]: this.popupCounter
    tables,                    \* [t]: the rows of a table, in document order
    groups,                    \* groupManager: the groups, by id
    groupStatus,               \* groupManager: the expanded flag of each group
    timers,                    \* the pending setTimeout callbacks, oldest first
    lastCollapse,              \* the last toggleGroup call, if it collapsed a group
    instantClass,              \* by row id: the class the row would have had every
                               \* toggle been made with noAnimation
    lastOp                     \* the last call made and what it did

valueVars == <<values, originalValues>>
externalVars == <<externalParameterEditors>>
lifeVars == <<container, options, popupCounter>>
buildVars == <<constructed, parsedProperties, editors, group, tableContainer, lifeVars>>
groupVars == <<groups, groupStatus, timers, lastCollapse, instantClass>>

vars == <<constructed, parsedProperties, values, originalValues, editors,
          externalParameterEditors, group, tableContainer, container, options,
          popupCounter, tables, groups, groupStatus, timers, lastCollapse, instantClass,
          lastOp>>

-----------------------------------------------------------------------------
(* JavaScript values.  type is the typeof; ref is the identity of an object *)
(* (0 for a primitive); text is what JSON.stringify prints, without the    *)
(* quotes of a string.                                                     *)

Undefined == [type |-> "undefined", ref |-> 0, text |-> ""]
Num1 == [type |-> "number", ref |-> 0, text |-> "1"]
Str1 == [type |-> "string", ref |-> 0, text |-> "1"]
StrFff == [type |-> "string", ref |-> 0, text |-> "#fff"]
ObjA == [type |-> "object", ref |-> 1, text |-> "{k:1}"]

\* $.oc.inspector.removedProperty = {removed: true}
removedProperty == [type |-> "object", ref |-> 2, text |-> "{removed:true}"]

\* value === other
StrictEquals(a, b) == a = b

\* value == other, on the value kinds of the model: a number and a string
\* are equal when the string reads as the number; objects by identity
LooseEquals(a, b) ==
    IF a.type = "object" \/ b.type = "object" \/ a.type = "undefined" \/ b.type = "undefined"
    THEN a = b
    ELSE a.text = b.text

\* JSON.stringify of one value: a string is quoted, so "1" and 1 differ;
\* an object prints its structure, whatever its identity
StringifyValue(v) == <<v.type, v.text>>

\* '{{ ' + value + ' }}'
WrapExternal(expr) == [type |-> "string", ref |-> 0, text |-> "{{ " \o expr \o " }}"]

-----------------------------------------------------------------------------
(* A JavaScript object used as a map: its own keys in insertion order.     *)

HasKey(m, k) == \E i \in 1..Len(m) : m[i].key = k

KeyPos(m, k) == CHOOSE i \in 1..Len(m) : m[i].key = k

\* m[k]
Lookup(m, k) == IF HasKey(m, k) THEN m[KeyPos(m, k)].value ELSE Undefined

\* m[k] = v: an existing key keeps its place, a new key goes last
Assign(m, k, v) ==
    IF HasKey(m, k)
    THEN [m EXCEPT ![KeyPos(m, k)] = [key |-> k, value |-> v]]
    ELSE Append(m, [key |-> k, value |-> v])

\* delete m[k]
Delete(m, k) ==
    IF HasKey(m, k)
    THEN SubSeq(m, 1, KeyPos(m, k) - 1) \o SubSeq(m, KeyPos(m, k) + 1, Len(m))
    ELSE m

\* JSON.stringify of a map: the keys in insertion order, each with its value
Stringify(m) == [i \in 1..Len(m) |-> <<m[i].key, StringifyValue(m[i].value)>>]

\* $.extend(true, {}, m): the keys in order, each object copied (the copy
\* has an identity of its own)
CloneValue(v) == IF v.type = "object" THEN [v EXCEPT !.ref = v.ref + 10] ELSE v

DeepClone(m) == [i \in 1..Len(m) |-> [key |-> m[i].key, value |-> CloneValue(m[i].value)]]

\* the map as a set of key/structure pairs: what a structural comparison sees
Structure(m) == {<<m[i].key, StringifyValue(m[i].value)>> : i \in 1..Len(m)}

-----------------------------------------------------------------------------
(* The loops below are written  CHOOSE r \in {Loop(next) : next \in {Step}} : *)
(* TRUE, which is Loop(Step) with Step evaluated once.                     *)

-----------------------------------------------------------------------------
(* The schema: parsedProperties.properties, an ordered list of group       *)
(* markers and properties.  "" stands for an absent string attribute.      *)

GroupItem(k) ==
    [itemType |-> "group", property |-> "", groupIndex |-> k,
     default |-> Undefined, type |-> "", showExternalParam |-> FALSE]

PropertyItem(p, k, d, t, x) ==
    [itemType |-> "property", property |-> p, groupIndex |-> k,
     default |-> d, type |-> t, showExternalParam |-> x]

\* the schemas whose values are edited: the one of the example (a group
\* and a property with a default) and one with no group marker
ValueSchemas ==
    { <<GroupItem("1"), PropertyItem("color", "1", StrFff, "string", TRUE)>>,
      <<PropertyItem("color", "", StrFff, "string", TRUE),
        PropertyItem("size", "", Num1, "set", FALSE)>> }

\* the schemas whose groups are built: markers and properties in every order
GroupSchemas ==
    { <<GroupItem("1"), PropertyItem("color", "1", StrFff, "string", FALSE)>>,
      <<PropertyItem("color", "", StrFff, "string", FALSE),
        PropertyItem("size", "", Undefined, "string", FALSE)>>,
      <<GroupItem("1"), PropertyItem("color", "1", Undefined, "string", FALSE),
        PropertyItem("size", "", Num1, "string", FALSE)>>,
      <<GroupItem("1"), PropertyItem("color", "1", StrFff, "string", FALSE),
        GroupItem("2"), PropertyItem("size", "2", Undefined, "string", FALSE)>>,
      <<GroupItem("1"), PropertyItem("size", "1", Undefined, "object", FALSE),
        PropertyItem("color", "", StrFff, "string", FALSE)>> }

\* the schemas a composite editor constructs its child surface with
ChildSchemas ==
    { <<PropertyItem("color", "", Undefined, "string", FALSE)>>,
      <<GroupItem("1"), PropertyItem("width", "1", Num1, "string", FALSE)>> }

\* the property names of a schema
PropertyNames(props) ==
    {props[i].property : i \in {j \in 1..Len(props) : props[j].itemType = "property"}}

-----------------------------------------------------------------------------
(* The group manager of the root surface.  A group is addressed by its id, *)
(* its position in groups; 0 is no group.                                  *)

\* groupManager.createGroup(groupIndex, parentGroup)
\* (by records who asked for the group: "init", "editor", or the surface
\* whose build met a group marker)
createGroup(gs, groupIndex, parentGroup, by) ==
    Append(gs, [index |-> groupIndex, parentGroup |-> parentGroup, by |-> by])

\* group.getLevel(): the number of groups above it
RECURSIVE getLevel(_, _)
getLevel(gs, g) ==
    IF gs[g].parentGroup = 0 THEN 0 ELSE 1 + getLevel(gs, gs[g].parentGroup)

\* groupManager.isGroupExpanded(group)
isGroupExpanded(status, g) == status[g]

\* groupManager.setGroupStatus(groupIndex, expanded)
setGroupStatus(status, g, expanded) == [status EXCEPT ![g] = expanded]

\* group.getGroupAndAllParents(): the group first, the outermost group last
RECURSIVE getGroupAndAllParents(_, _)
getGroupAndAllParents(gs, g) ==
    IF g = 0 THEN <<>> ELSE <<g>> \o getGroupAndAllParents(gs, gs[g].parentGroup)

\* the groups below g, at any depth
RECURSIVE Descendants(_, _)
Descendants(gs, g) ==
    LET children == {h \in 1..Len(gs) : gs[h].parentGroup = g}
    IN  children \cup UNION {Descendants(gs, h) : h \in children}

-----------------------------------------------------------------------------
(* Building the table.  A row carries its attributes and classes:          *)
(*   groupIndex, parentGroupIndex  data-group-index, data-parent-group-index*)
(*                                 (0: no attribute)                       *)
(*   level                         data-group-level (-1: no attribute)     *)
(*   cls                           "expanded", "collapsed" or ""           *)
(*   link                          the expand control: "expanded", "" (not *)
(*                                 expanded) or "none" (no control)        *)

\* Surface.prototype.getRowCssClass: the expanded/collapsed part
getRowCssClass(gs, status, property, g) ==
    IF property.itemType = "property" /\ gs[g].parentGroup # 0
    THEN (IF isGroupExpanded(status, g) THEN "expanded" ELSE "collapsed")
    ELSE ""

\* Surface.prototype.buildGroupExpandControl: the class of the anchor
buildGroupExpandControl(status, g) ==
    IF isGroupExpanded(status, g) THEN "expanded" ELSE ""

\* Surface.prototype.buildRow
buildRow(id, s, gs, status, property, g) ==
    [id |-> id, surface |-> s, itemType |-> property.itemType,
     property |-> property.property,
     groupIndex |-> IF property.itemType = "group" THEN g ELSE 0,
     parentGroupIndex |->
        IF property.itemType = "group" THEN gs[g].parentGroup
        ELSE IF gs[g].parentGroup # 0 THEN g ELSE 0,
     level |-> -1,
     cls |-> getRowCssClass(gs, status, property, g),
     link |-> IF property.itemType = "group" THEN buildGroupExpandControl(status, g) ELSE "none",
     controlGroup |-> FALSE,
     changed |-> FALSE]

\* Surface.prototype.applyGroupLevelToRow
applyGroupLevelAgain(gs, row, g) == [row EXCEPT !.level = getLevel(gs, g)]

applyGroupLevelToRow(gs, row, g) ==
    IF row.level # -1 THEN row ELSE [row EXCEPT !.level = getLevel(gs, g)]

\* isGroupedEditor() of the editor class registered for a type
isGroupedEditor(type) == type = "object"

\* the editor classes registered in $.oc.inspector.propertyEditors
propertyEditors == {"string", "set", "object"}

\* Surface.prototype.validateEditorType: an absent type is 'string'; FALSE
\* when it throws
validateEditorTypeLax(type) == TRUE

validateEditorType(type) == (IF type = "" THEN "string" ELSE type) \in propertyEditors

\* the parent a group marker's group is created under
MarkerParentNested(thisGroup, currentGroup) == currentGroup

MarkerParent(thisGroup, currentGroup) == thisGroup

\* the group an item with no groupIndex of its own is built under
UngroupedKeepsCurrent(thisGroup, currentGroup) == currentGroup

UngroupedGroup(thisGroup, currentGroup) == thisGroup

\* Surface.prototype.build: one pass of the loop, on item i.  acc holds the
\* groups, their status, the rows and editors built so far and currentGroup;
\* undefinedValue gives what each editor's getUndefinedValue() returns.
buildItem(s, thisGroup, props, undefinedValue, nextId, acc, i) ==
    LET property == props[i]
        isGroup == property.itemType = "group"
        gs1 == IF isGroup
               THEN createGroup(acc.groups, property.groupIndex,
                                MarkerParent(thisGroup, acc.currentGroup), s)
               ELSE acc.groups
        st1 == IF isGroup THEN Append(acc.status, TRUE) ELSE acc.status
        currentGroup ==
            IF isGroup THEN Len(gs1)
            ELSE IF property.groupIndex = "" THEN UngroupedGroup(thisGroup, acc.currentGroup)
            ELSE acc.currentGroup
        row0 == buildRow(nextId + i, s, gs1, st1, property, currentGroup)
        row1 == applyGroupLevelToRow(gs1, row0,
                    IF isGroup THEN gs1[currentGroup].parentGroup ELSE currentGroup)
        \* buildEditor: a grouped editor creates a group of its own under the
        \* group it is built in, and its row becomes a control group
        grouped == ~isGroup /\ isGroupedEditor(property.type)
        gs2 == IF grouped THEN createGroup(gs1, property.property, currentGroup, "editor") ELSE gs1
        st2 == IF grouped THEN Append(st1, TRUE) ELSE st1
        row2 == IF grouped
                THEN [row1 EXCEPT !.controlGroup = TRUE,
                                  !.groupIndex = Len(gs2),
                                  !.parentGroupIndex = currentGroup,
                                  !.link = buildGroupExpandControl(st2, Len(gs2))]
                ELSE row1
        editor == [property |-> property.property, parentGroup |-> currentGroup,
                   group |-> IF grouped THEN Len(gs2) ELSE 0,
                   undefinedValue |-> undefinedValue[property.property]]
    IN  IF ~isGroup /\ ~validateEditorType(property.type)
        THEN \* buildEditor throws: the row is in tbody, no editor is made for it
             [groups |-> gs1, status |-> st1, rows |-> Append(acc.rows, row1),
              editors |-> acc.editors, currentGroup |-> currentGroup, thrown |-> TRUE]
        ELSE [groups |-> gs2, status |-> st2,
              rows |-> Append(acc.rows, row2),
              editors |-> IF isGroup THEN acc.editors ELSE Append(acc.editors, editor),
              currentGroup |-> currentGroup, thrown |-> FALSE]

RECURSIVE buildLoop(_, _, _, _, _, _, _)
buildLoop(s, thisGroup, props, undefinedValue, nextId, acc, i) ==
    IF i > Len(props) \/ acc.thrown THEN acc
    ELSE CHOOSE result \in
            {buildLoop(s, thisGroup, props, undefinedValue, nextId, next, i + 1) :
                next \in {buildItem(s, thisGroup, props, undefinedValue, nextId, acc, i)}} : TRUE

\* Surface.prototype.build
build(s, thisGroup, props, undefinedValue, gs, status, nextId) ==
    buildLoop(s, thisGroup, props, undefinedValue, nextId,
              [groups |-> gs, status |-> status, rows |-> <<>>, editors |-> <<>>,
               currentGroup |-> thisGroup, thrown |-> FALSE], 1)

\* Surface.prototype.buildExternalParameterEditor: one external editor for
\* each property row that allows it
buildExternalParameterEditor(props, enabled) ==
    IF ~enabled THEN <<>>
    ELSE LET keep == SelectSeq(props, LAMBDA d : d.itemType = "property" /\ d.showExternalParam
                                                  /\ ~isGroupedEditor(d.type))
         IN  [i \in 1..Len(keep) |-> [property |-> keep[i].property, visible |-> FALSE]]

-----------------------------------------------------------------------------
(* Surfaces: the root, and the child surface of a composite editor.        *)

Surfaces == {"root", "child"}

\* no collapse to undo
NoCollapse == [group |-> 0, before |-> <<>>]

\* what an editor does when it is told of a change, or in its dispose():
\* nothing (editor 0), or a call of setPropertyValue(property, value)
NoReaction == [editor |-> 0, property |-> "", value |-> Undefined]

\* what a call leaves in lastOp
Op(name, s) ==
    [op |-> name, surface |-> s, property |-> "", value |-> Undefined,
     flag |-> FALSE, result |-> FALSE, marked |-> <<>>, called |-> <<>>,
     editorOk |-> {}, externalOk |-> {}, notified |-> <<>>, group |-> 0,
     before |-> <<>>, thrown |-> "", log |-> <<>>, reaction |-> NoReaction]

\* the value maps a surface is constructed with; "null" is the null argument
InitialValues ==
    { "null",
      <<>>,
      <<[key |-> "color", value |-> StrFff]>>,
      <<[key |-> "color", value |-> Num1], [key |-> "size", value |-> ObjA]>> }

\* editor.getUndefinedValue(): what the editor class of a property declares.
\* The string editor declares the schema default; another editor class may
\* declare the default, nothing, or the removed marker.
UndefinedValues(property) ==
    IF property.type = "string" THEN {property.default}
    ELSE {property.default, Undefined, removedProperty}

UndefinedValueChoices(props) ==
    LET names == PropertyNames(props)
        def(p) == CHOOSE d \in {props[i] : i \in 1..Len(props)} : d.property = p
    IN  {f \in [names -> {Undefined, StrFff, Num1, removedProperty}] :
            \A p \in names : f[p] \in UndefinedValues(def(p))}

\* every editor declares the schema default
DefaultUndefinedValue(props) ==
    LET names == PropertyNames(props)
        def(p) == CHOOSE d \in {props[i] : i \in 1..Len(props)} : d.property = p
    IN  [p \in names |-> def(p).default]

\* Surface.DEFAULTS; a callback option is TRUE when a function is given
DEFAULTS ==
    [enableExternalParameterEditor |-> FALSE, onChange |-> FALSE,
     onPopupDisplayed |-> FALSE, onPopupHidden |-> FALSE]

\* Surface (the constructor) and Surface.prototype.init, for the root surface.
\* inspectorUniqueId is FALSE for undefined.  When the constructor throws, the
\* caller gets no surface: constructed stays empty, and the fields are what
\* had been assigned by then.
Surface(props, vals, undefinedValue, inspectorUniqueId, opts) ==
    LET v == IF vals = "null" THEN <<>> ELSE vals
        rootGroups == createGroup(<<>>, "root", 0, "init")
        b == build("root", 1, props, undefinedValue, rootGroups, <<TRUE>>, 0)
        only(x, none) == [s \in Surfaces |-> IF s = "root" /\ inspectorUniqueId THEN x ELSE none]
    IN  /\ constructed = IF inspectorUniqueId /\ ~b.thrown THEN {"root"} ELSE {}
        /\ parsedProperties = only(props, <<>>)
        /\ values = only(v, <<>>)
        /\ originalValues = only(DeepClone(v), <<>>)
        /\ editors = only(b.editors, <<>>)
        /\ externalParameterEditors =
              only(IF b.thrown THEN <<>>
                   ELSE buildExternalParameterEditor(props, opts.enableExternalParameterEditor),
                   <<>>)
        /\ group = only(1, 0)
        /\ tableContainer = only("root", "none")
        /\ container = only(IF b.thrown THEN "detached" ELSE "attached", "null")
        /\ options = only(opts, DEFAULTS)
        /\ popupCounter = [s \in Surfaces |-> 0]
        /\ tables = only(b.rows, <<>>)
        /\ groups = IF inspectorUniqueId THEN b.groups ELSE <<>>
        /\ groupStatus = IF inspectorUniqueId THEN b.status ELSE <<>>
        /\ timers = <<>>
        /\ lastCollapse = NoCollapse
        /\ instantClass = IF inspectorUniqueId THEN [i \in 1..Len(b.rows) |-> b.rows[i].cls]
                          ELSE <<>>
        /\ lastOp = [Op("new", "root") EXCEPT
                        !.flag = inspectorUniqueId,
                        !.thrown = IF inspectorUniqueId /\ ~b.thrown THEN "" ELSE "Error"]

\* new Surface(...) with an identifier and the default callbacks
Construct(props, vals, undefinedValue, enableExternalParameterEditor) ==
    Surface(props, vals, undefinedValue, TRUE,
            [DEFAULTS EXCEPT !.enableExternalParameterEditor = enableExternalParameterEditor])

\* a surface whose values are edited
Init ==
    \E props \in ValueSchemas, vals \in InitialValues :
        \E undefinedValue \in UndefinedValueChoices(props) :
            Construct(props, vals, undefinedValue, TRUE)

-----------------------------------------------------------------------------
(* Value synchronisation.                                                  *)

\* Surface.prototype.getPropertyValue
getPropertyValue(s, property) == Lookup(values[s], property)

\* Surface.prototype.comparePropertyValues, on two property values
comparePropertyValues(oldValue, newValue) ==
    IF oldValue = Undefined /\ newValue # Undefined THEN FALSE
    ELSE IF oldValue # Undefined /\ newValue = Undefined THEN FALSE
    ELSE IF oldValue.type = "object" /\ newValue.type = "object"
         THEN StringifyValue(oldValue) = StringifyValue(newValue)
    ELSE LooseEquals(oldValue, newValue)

\* Surface.prototype.comparePropertyValues, on two value maps: both are
\* objects, so their JSON.stringify texts are compared
compareValueMaps(oldValue, newValue) == Stringify(oldValue) = Stringify(newValue)

\* Surface.prototype.hasChanges
hasChanges(s) == ~compareValueMaps(originalValues[s], values[s])

\* Surface.prototype.findPropertyEditor: its index in editors, 0 for null
findPropertyEditor(s, property) ==
    IF \E i \in 1..Len(editors[s]) : editors[s][i].property = property
    THEN CHOOSE i \in 1..Len(editors[s]) :
            /\ editors[s][i].property = property
            /\ \A j \in 1..(i - 1) : editors[s][j].property # property
    ELSE 0

\* Surface.prototype.findExternalParameterEditor: its index, 0 for null
findExternalParameterEditor(s, property) ==
    LET ext == externalParameterEditors[s]
    IN  IF \E i \in 1..Len(ext) : ext[i].property = property
        THEN CHOOSE i \in 1..Len(ext) :
                /\ ext[i].property = property
                /\ \A j \in 1..(i - 1) : ext[j].property # property
        ELSE 0

\* externalParameterEditor.isEditorVisible(), for the editor found (if any)
externalVisible(s, property) ==
    /\ findExternalParameterEditor(s, property) # 0
    /\ externalParameterEditors[s][findExternalParameterEditor(s, property)].visible

\* externalParameterEditor.getValue(): the expression typed for the property
externalExpression(property) == "this." \o property

\* the value of a property no visible external editor decides: the stored
\* value, else the editor's undefined value, else (no editor) the default
StoredOrDefaultOnly(s, property) ==
    LET value == getPropertyValue(s, property.property)
    IN  IF value = Undefined THEN property.default ELSE value

StoredOrUndefinedValue(s, property) ==
    LET value == getPropertyValue(s, property.property)
        editor == findPropertyEditor(s, property.property)
    IN  IF value = Undefined
        THEN (IF editor # 0 THEN editors[s][editor].undefinedValue ELSE property.default)
        ELSE value

\* Surface.prototype.getValues: one pass of the loop
getValuesItemKeepsRemoved(s, result, property) ==
    IF property.itemType # "property" THEN result
    ELSE IF ~externalVisible(s, property.property)
         THEN Assign(result, property.property, StoredOrUndefinedValue(s, property))
         ELSE Assign(result, property.property,
                     WrapExternal(externalExpression(property.property)))

getValuesItem(s, result, property) ==
    IF property.itemType # "property" THEN result
    ELSE IF ~externalVisible(s, property.property)
         THEN LET value == StoredOrUndefinedValue(s, property)
              IN  IF StrictEquals(value, removedProperty) THEN result
                  ELSE Assign(result, property.property, value)
         ELSE Assign(result, property.property,
                     WrapExternal(externalExpression(property.property)))

RECURSIVE getValuesLoop(_, _, _)
getValuesLoop(s, result, i) ==
    IF i > Len(parsedProperties[s]) THEN result
    ELSE CHOOSE final \in
            {getValuesLoop(s, next, i + 1) :
                next \in {getValuesItem(s, result, parsedProperties[s][i])}} : TRUE

\* Surface.prototype.getValues
getValues(s) == getValuesLoop(s, <<>>, 1)

\* Surface.prototype.markPropertyChanged: the first row of the table the
\* surface holds whose data-property is the property
markPropertyChanged(table, property, changed) ==
    LET hits == {i \in 1..Len(table) : table[i].property = property}
        first == CHOOSE i \in hits : \A j \in hits : i <= j
    IN  [table EXCEPT ![first].changed = changed]

\* Surface.prototype.notifyEditorsPropertyChanged: the editors told, in order
notifyEditorsPropertyChanged(s) == [i \in 1..Len(editors[s]) |-> editors[s][i].property]

\* one thing a call did, in the order it did it: ev is "write" (the value map
\* is written), "mark" (markPropertyChanged), "notify" (who is the editor whose
\* onInspectorPropertyChanged is called), "onChange", or a step of dispose
Ev(ev, who, property) == [ev |-> ev, who |-> who, property |-> property]

\* Surface.prototype.setPropertyValue: the write to this.values
writeValue(vals, property, value) ==
    IF value # Undefined THEN Assign(vals, property, value) ELSE Delete(vals, property)

\* Surface.prototype.setPropertyValue: whether the row is marked changed
isChanged(s, property, value) ==
    LET original == Lookup(originalValues[s], property)
    IN  original = Undefined \/ ~comparePropertyValues(original, value)

\* Surface.prototype.setPropertyValue on st = [values, table, log], and the
\* loop of notifyEditorsPropertyChanged inside it.  The editor reaction.editor
\* calls setPropertyValue(reaction.property, reaction.value) from its
\* onInspectorPropertyChanged; that inner call is answered by no editor.
RECURSIVE setPropertyValue(_, _, _, _, _, _)
RECURSIVE notifyEditorsLoop(_, _, _, _, _)
notifyOtherEditorsLoop(st, s, property, reaction, i) ==
    IF i > Len(editors[s]) THEN st
    ELSE IF editors[s][i].property = property
         THEN notifyEditorsLoop(st, s, property, reaction, i + 1)
    ELSE LET told == [st EXCEPT !.log = Append(@, Ev("notify", editors[s][i].property, property))]
         IN  CHOOSE final \in
                {notifyEditorsLoop(next, s, property, reaction, i + 1) :
                    next \in {IF reaction.editor = i
                              THEN setPropertyValue(told, s, reaction.property, reaction.value,
                                                    FALSE, NoReaction)
                              ELSE told}} : TRUE

notifyEditorsLoop(st, s, property, reaction, i) ==
    IF i > Len(editors[s]) THEN st
    ELSE LET told == [st EXCEPT !.log = Append(@, Ev("notify", editors[s][i].property, property))]
         IN  CHOOSE final \in
                {notifyEditorsLoop(next, s, property, reaction, i + 1) :
                    next \in {IF reaction.editor = i
                              THEN setPropertyValue(told, s, reaction.property, reaction.value,
                                                    FALSE, NoReaction)
                              ELSE told}} : TRUE

setPropertyValue(st, s, property, value, supressChangeEvents, reaction) ==
    LET written == [st EXCEPT !.values = writeValue(@, property, value),
                              !.log = Append(@, Ev("write", "", property))]
        marked == [written EXCEPT
                      !.table = markPropertyChanged(@, property, isChanged(s, property, value)),
                      !.log = Append(@, Ev("mark", "", property))]
    IN  IF supressChangeEvents THEN written
        ELSE CHOOSE final \in
                {IF options[s].onChange
                 THEN [notified EXCEPT !.log = Append(@, Ev("onChange", "", property))]
                 ELSE notified :
                    notified \in {notifyEditorsLoop(marked, s, property, reaction, 1)}} : TRUE

\* a call of setPropertyValue on surface s; on a disposed surface this.values
\* is null and the first statement throws a TypeError
SetPropertyValueReacting(s, property, value, supressChangeEvents, reaction) ==
    /\ s \in constructed
    /\ IF values[s] = "null"
       THEN /\ lastOp' = [Op("setPropertyValue", s) EXCEPT
                            !.property = property, !.value = value,
                            !.flag = supressChangeEvents, !.thrown = "TypeError"]
            /\ UNCHANGED <<values, tables>>
       ELSE /\ property \in PropertyNames(parsedProperties[s])
            /\ reaction.editor \in 0..Len(editors[s])
            /\ reaction.editor # 0 => reaction.property \in PropertyNames(parsedProperties[s])
            /\ LET r == setPropertyValue([values |-> values[s],
                                          table |-> tables[tableContainer[s]], log |-> <<>>],
                                         s, property, value, supressChangeEvents, reaction)
               IN  /\ values' = [values EXCEPT ![s] = r.values]
                   /\ tables' = [tables EXCEPT ![tableContainer[s]] = r.table]
                   /\ lastOp' = [Op("setPropertyValue", s) EXCEPT
                                    !.property = property, !.value = value,
                                    !.flag = supressChangeEvents,
                                    !.notified = IF supressChangeEvents THEN <<>>
                                                 ELSE notifyEditorsPropertyChanged(s),
                                    !.reaction = reaction,
                                    !.log = r.log]
    /\ UNCHANGED <<originalValues, buildVars, externalVars, groupVars>>

\* Surface.prototype.setPropertyValue, called with editors that do not react
SetPropertyValue(s, property, value, supressChangeEvents) ==
    SetPropertyValueReacting(s, property, value, supressChangeEvents, NoReaction)

\* the user shows or hides the external parameter editor of a property
ToggleExternalEditor(s, i) ==
    /\ s \in constructed
    /\ i \in 1..Len(externalParameterEditors[s])
    /\ externalParameterEditors' =
          [externalParameterEditors EXCEPT ![s][i].visible = ~@]
    /\ lastOp' = [Op("toggleExternalEditor", s) EXCEPT
                    !.property = externalParameterEditors[s][i].property]
    /\ UNCHANGED <<valueVars, buildVars, groupVars, tables>>

-----------------------------------------------------------------------------
(* Validation.                                                             *)

\* Surface.prototype.validate: one pass of the loop, on editor i.  editorOk
\* and externalOk are the properties whose editor.validate() and
\* externalEditor.validate() return true.  acc.called lists the validators
\* invoked, acc.marked the editors markInvalid() was called on.
validateEditorAlso(s, editorOk, externalOk, acc, i) ==
    LET property == editors[s][i].property
        external == <<"external", property>>
        editor == <<"editor", property>>
    IN  IF externalVisible(s, property) /\ property \notin externalOk
        THEN [acc EXCEPT !.called = Append(@, external), !.marked = Append(@, property),
                         !.result = FALSE, !.returned = TRUE]
        ELSE IF property \notin editorOk
        THEN [acc EXCEPT !.called = (IF externalVisible(s, property) THEN Append(@, external) ELSE @)
                                        \o <<editor>>,
                         !.marked = Append(@, property),
                         !.result = FALSE, !.returned = TRUE]
        ELSE [acc EXCEPT !.called = (IF externalVisible(s, property) THEN Append(@, external) ELSE @)
                                        \o <<editor>>]

validateAll(s, editorOk, externalOk, acc, i) ==
    LET property == editors[s][i].property
        external == <<"external", property>>
        editor == <<"editor", property>>
    IN  IF externalVisible(s, property)
        THEN IF property \notin externalOk
             THEN [acc EXCEPT !.called = Append(@, external), !.marked = Append(@, property),
                              !.result = FALSE]
             ELSE [acc EXCEPT !.called = Append(@, external)]
        ELSE IF property \notin editorOk
             THEN [acc EXCEPT !.called = Append(@, editor), !.marked = Append(@, property),
                              !.result = FALSE]
             ELSE [acc EXCEPT !.called = Append(@, editor)]

validateEditor(s, editorOk, externalOk, acc, i) ==
    LET property == editors[s][i].property
        external == <<"external", property>>
        editor == <<"editor", property>>
    IN  IF externalVisible(s, property)
        THEN IF property \notin externalOk
             THEN [acc EXCEPT !.called = Append(@, external), !.marked = Append(@, property),
                              !.result = FALSE, !.returned = TRUE]
             ELSE [acc EXCEPT !.called = Append(@, external)]
        ELSE IF property \notin editorOk
             THEN [acc EXCEPT !.called = Append(@, editor), !.marked = Append(@, property),
                              !.result = FALSE, !.returned = TRUE]
             ELSE [acc EXCEPT !.called = Append(@, editor)]

RECURSIVE validateLoop(_, _, _, _, _)
validateLoop(s, editorOk, externalOk, acc, i) ==
    IF i > Len(editors[s]) \/ acc.returned THEN acc
    ELSE CHOOSE final \in
            {validateLoop(s, editorOk, externalOk, next, i + 1) :
                next \in {validateEditor(s, editorOk, externalOk, acc, i)}} : TRUE

\* Surface.prototype.validate
validate(s, editorOk, externalOk) ==
    validateLoop(s, editorOk, externalOk,
                 [result |-> TRUE, returned |-> FALSE, called |-> <<>>, marked |-> <<>>], 1)

Validate(s, editorOk, externalOk) ==
    /\ s \in constructed
    /\ LET v == validate(s, editorOk, externalOk)
       IN  lastOp' = [Op("validate", s) EXCEPT
                        !.result = v.result, !.marked = v.marked, !.called = v.called,
                        !.editorOk = editorOk, !.externalOk = externalOk]
    /\ UNCHANGED <<valueVars, buildVars, externalVars, groupVars, tables>>

-----------------------------------------------------------------------------
(* Expanding and collapsing groups.                                        *)

\* the delay budget of one toggle, in milliseconds
AnimationBudget == 50

\* the most timers pending at once
MaxTimers == 2

RECURSIVE Sorted(_)
Sorted(S) ==
    IF S = {} THEN <<>>
    ELSE LET m == CHOOSE x \in S : \A y \in S : x <= y
         IN  <<m>> \o Sorted(S \ {m})

\* the ids of the rows of a table whose data-parent-group-index is g
ChildRows(table, g) ==
    LET hits == SelectSeq(table, LAMBDA row : row.parentGroupIndex = g)
    IN  [i \in 1..Len(hits) |-> hits[i].id]

\* groupManager.findGroupRows(table, groupIndex, includeDescendants): the
\* rows of the group, then (if asked) those of the groups below it
RECURSIVE findGroupRows(_, _, _, _)
RECURSIVE findSubgroupRows(_, _, _)
findSubgroupRows(table, gs, subgroups) ==
    IF subgroups = <<>> THEN <<>>
    ELSE findGroupRows(table, gs, Head(subgroups), TRUE)
            \o findSubgroupRows(table, gs, Tail(subgroups))

findGroupRows(table, gs, g, includeDescendants) ==
    ChildRows(table, g)
        \o (IF includeDescendants
            THEN findSubgroupRows(table, gs,
                    Sorted({h \in 1..Len(gs) : gs[h].parentGroup = g}))
            ELSE <<>>)

\* group.findGroupRow(table): the index in the table of the row whose
\* data-group-index is g, 0 if there is none
findGroupRow(table, g) ==
    IF \E i \in 1..Len(table) : table[i].groupIndex = g
    THEN CHOOSE i \in 1..Len(table) : table[i].groupIndex = g
    ELSE 0

\* toggleClass(row, 'collapsed', collapse); toggleClass(row, 'expanded', !collapse)
toggleRowClass(tb, id, collapse) ==
    [t \in DOMAIN tb |->
        [i \in 1..Len(tb[t]) |->
            IF tb[t][i].id = id
            THEN [tb[t][i] EXCEPT !.cls = IF collapse THEN "collapsed" ELSE "expanded"]
            ELSE tb[t][i]]]

\* Surface.prototype.expandOrCollapseRows with noAnimation: every row, the
\* last one first
RECURSIVE expandOrCollapseRows(_, _, _)
expandOrCollapseRows(tb, ids, collapse) ==
    IF ids = <<>> THEN tb
    ELSE CHOOSE final \in
            {expandOrCollapseRows(next, SubSeq(ids, 1, Len(ids) - 1), collapse) :
                next \in {toggleRowClass(tb, ids[Len(ids)], collapse)}} : TRUE

\* Surface.prototype.expandOrCollapseRows with animation: the last row is
\* popped and a timer set for it; nothing when no row is left
scheduleRow(tm, ids, collapse, duration) ==
    IF ids = <<>> THEN tm
    ELSE Append(tm, [row |-> ids[Len(ids)], rows |-> SubSeq(ids, 1, Len(ids) - 1),
                     collapse |-> collapse, duration |-> duration])

\* Math.round(50 / propertyRows.length), for at least one row
Duration(n) == (2 * AnimationBudget + n) \div (2 * n)

\* the status toggleGroup records
toggleGroupStatusCascade(gs, status, g, collapse) ==
    [h \in 1..Len(status) |->
        IF h = g \/ (collapse /\ h \in Descendants(gs, g)) THEN ~collapse ELSE status[h]]

toggleGroupStatusExpanded(gs, status, g, collapse) == setGroupStatus(status, g, TRUE)

toggleGroupStatusDeferred(gs, status, g, collapse) == status

toggleGroupStatus(gs, status, g, collapse) == setGroupStatus(status, g, ~collapse)

\* Surface.prototype.toggleGroup, on row r of the root table: the tables,
\* timers and group status it leaves
toggleGroup(tb, tm, gs, status, r, forceExpand) ==
    LET row == tb["root"][r]
        collapse == row.link = "expanded" /\ ~forceExpand
        linked == [tb EXCEPT !["root"][r].link = IF collapse THEN "" ELSE "expanded"]
        propertyRows == findGroupRows(linked["root"], gs, row.groupIndex, ~collapse)
    IN  [tables |-> IF forceExpand THEN expandOrCollapseRows(linked, propertyRows, collapse)
                    ELSE linked,
         timers |-> IF forceExpand \/ propertyRows = <<>> THEN tm
                    ELSE scheduleRow(tm, propertyRows, collapse, Duration(Len(propertyRows))),
         status |-> toggleGroupStatus(gs, status, row.groupIndex, collapse),
         collapse |-> collapse]

\* Surface.prototype.expandOrCollapseRows with noAnimation, on the classes by
\* row id: every row of ids gets its class at once
instantRows(classes, ids, collapse) ==
    [id \in 1..Len(classes) |->
        IF id \in ids THEN (IF collapse THEN "collapsed" ELSE "expanded") ELSE classes[id]]

\* the ids in a list of rows
Ids(rows) == {rows[i] : i \in 1..Len(rows)}

\* Surface.prototype.onGroupClick: toggleGroup(row) on a group row or a
\* control group row of the root table
ToggleGroupRows(r) ==
    /\ "root" \in constructed
    /\ r \in 1..Len(tables["root"])
    /\ tables["root"][r].link # "none"
    /\ Len(timers) < MaxTimers
    /\ LET t == toggleGroup(tables, timers, groups, groupStatus, r, FALSE)
           g == tables["root"][r].groupIndex
       IN  /\ tables' = t.tables
           /\ timers' = t.timers
           /\ groupStatus' = t.status
           /\ lastCollapse' = IF t.collapse THEN [group |-> g, before |-> groupStatus]
                              ELSE NoCollapse
           /\ instantClass' =
                 instantRows(instantClass,
                             Ids(findGroupRows(tables["root"], groups, g, ~t.collapse)),
                             t.collapse)
           /\ lastOp' = [Op("toggleGroup", "root") EXCEPT
                            !.group = g, !.flag = t.collapse,
                            !.before = IF ~t.collapse /\ lastCollapse.group = g
                                       THEN lastCollapse.before ELSE <<>>]
    /\ UNCHANGED <<buildVars, externalVars, groups>>

\* (a toggle that drops the stored values of the rows it hides)
ToggleGroupDropsValues(r) ==
    /\ ToggleGroupRows(r)
    /\ LET hidden == {tables["root"][i].property :
                        i \in {j \in 1..Len(tables["root"]) :
                                tables["root"][j].parentGroupIndex = tables["root"][r].groupIndex}}
       IN  values' = [values EXCEPT !["root"] =
                        IF tables["root"][r].link = "expanded"
                        THEN SelectSeq(@, LAMBDA e : e.key \notin hidden)
                        ELSE @]
    /\ originalValues' = originalValues

\* on a disposed surface getRootTable() reads this.container, which is null,
\* and throws a TypeError before any class is changed
ToggleGroup(r) ==
    IF container["root"] = "null"
    THEN /\ "root" \in constructed
         /\ r \in 1..Len(tables["root"])
         /\ tables["root"][r].link # "none"
         /\ lastOp' = [Op("toggleGroup", "root") EXCEPT
                         !.group = tables["root"][r].groupIndex, !.thrown = "TypeError"]
         /\ UNCHANGED <<valueVars, buildVars, externalVars, groupVars, tables>>
    ELSE /\ ToggleGroupRows(r)
         /\ UNCHANGED valueVars

\* Surface.prototype.expandGroupParents: toggleGroup(row, true) on the row
\* of each of gs[i..1], the outermost group first
RECURSIVE expandGroupParentsLoop(_, _, _, _)
expandGroupParentsLoop(st, gs, list, i) ==
    IF i = 0 THEN st
    ELSE LET r == findGroupRow(st.tables["root"], list[i])
         IN  CHOOSE final \in
                {expandGroupParentsLoop(next, gs, list, i - 1) :
                    next \in {IF r # 0
                              THEN LET t == toggleGroup(st.tables, st.timers, gs, st.status,
                                                        r, TRUE)
                                   IN  [tables |-> t.tables, timers |-> t.timers,
                                        status |-> t.status,
                                        order |-> Append(st.order, list[i])]
                              ELSE st}} : TRUE

\* (expandGroupParents over the groups above the group only)
expandParentsOnly(tb, tm, gs, status, g) ==
    LET list == Tail(getGroupAndAllParents(gs, g))
    IN  expandGroupParentsLoop([tables |-> tb, timers |-> tm, status |-> status,
                                order |-> <<>>], gs, list, Len(list))

\* order: the groups toggleGroup was called for, in the order of the calls
expandGroupParents(tb, tm, gs, status, g) ==
    LET list == getGroupAndAllParents(gs, g)
    IN  expandGroupParentsLoop([tables |-> tb, timers |-> tm, status |-> status,
                                order |-> <<>>], gs, list, Len(list))

ExpandGroupParents(g) ==
    /\ "root" \in constructed
    /\ g \in 1..Len(groups)
    /\ LET t == expandGroupParents(tables, timers, groups, groupStatus, g)
           list == getGroupAndAllParents(groups, g)
       IN  /\ tables' = t.tables
           /\ timers' = t.timers
           /\ groupStatus' = t.status
           /\ instantClass' =
                 instantRows(instantClass,
                             UNION {Ids(findGroupRows(tables["root"], groups, list[i], TRUE)) :
                                       i \in {j \in 1..Len(list) :
                                                 findGroupRow(tables["root"], list[j]) # 0}},
                             FALSE)
    /\ lastCollapse' = NoCollapse
    /\ lastOp' = [Op("expandGroupParents", "root") EXCEPT
                    !.group = g,
                    !.flag = ~isGroupExpanded(groupStatus, g),
                    !.called = expandGroupParents(tables, timers, groups, groupStatus, g).order]
    /\ UNCHANGED <<valueVars, buildVars, externalVars, groups>>

\* a timer may fire once no timer set before it is due sooner or as soon
MayFire(i) == \A j \in 1..(i - 1) : timers[j].duration > timers[i].duration

\* the callback toggleRow of expandOrCollapseRows
ToggleRow(i) ==
    /\ i \in 1..Len(timers)
    /\ MayFire(i)
    /\ tables' = toggleRowClass(tables, timers[i].row, timers[i].collapse)
    /\ timers' = scheduleRow(SubSeq(timers, 1, i - 1) \o SubSeq(timers, i + 1, Len(timers)),
                             timers[i].rows, timers[i].collapse, timers[i].duration)
    /\ lastOp' = Op("toggleRow", "root")
    /\ UNCHANGED <<valueVars, buildVars, externalVars, groups, groupStatus, lastCollapse,
                   instantClass>>

-----------------------------------------------------------------------------
(* Nested surfaces.                                                        *)

\* a composite editor of the root surface constructs its child surface:
\* Surface (the constructor), with parentSurface the root and group the
\* editor's own group
ConstructChild(i, props, vals) ==
    /\ "root" \in constructed
    /\ "child" \notin constructed
    /\ i \in 1..Len(editors["root"])
    /\ editors["root"][i].group # 0
    /\ LET v == IF vals = "null" THEN <<>> ELSE vals
           b == build("child", editors["root"][i].group, props, DefaultUndefinedValue(props),
                      groups, groupStatus, Len(tables["root"]))
       IN  /\ constructed' = constructed \cup {"child"}
           /\ parsedProperties' = [parsedProperties EXCEPT !["child"] = props]
           /\ values' = [values EXCEPT !["child"] = v]
           /\ originalValues' = [originalValues EXCEPT !["child"] = DeepClone(v)]
           /\ editors' = [editors EXCEPT !["child"] = b.editors]
           /\ group' = [group EXCEPT !["child"] = editors["root"][i].group]
           /\ tableContainer' = [tableContainer EXCEPT !["child"] = "child"]
           /\ container' = [container EXCEPT !["child"] = "attached"]
           /\ options' = [options EXCEPT !["child"] = options["root"]]
           /\ tables' = [tables EXCEPT !["child"] = b.rows]
           /\ groups' = b.groups
           /\ groupStatus' = b.status
           /\ instantClass' = instantClass \o [k \in 1..Len(b.rows) |-> b.rows[k].cls]
    /\ lastCollapse' = NoCollapse
    /\ lastOp' = Op("new", "child")
    /\ UNCHANGED <<externalVars, timers, popupCounter>>

\* mergeAfterRow.parentNode.insertBefore(row, mergeAfterRow.nextSibling)
insertAfter(table, anchor, row) ==
    SubSeq(table, 1, anchor) \o <<row>> \o SubSeq(table, anchor + 1, Len(table))

\* Surface.prototype.mergeChildSurface: the loop, from the last row to the first
RECURSIVE mergeLoop(_, _, _, _, _)
mergeLoopForward(table, gs, childGroup, anchor, childRows) ==
    IF childRows = <<>> THEN table
    ELSE CHOOSE final \in
            {mergeLoop(next, gs, childGroup, anchor, Tail(childRows)) :
                next \in {insertAfter(table, anchor,
                            applyGroupLevelToRow(gs, Head(childRows), childGroup))}} :
            TRUE

mergeLoop(table, gs, childGroup, anchor, childRows) ==
    IF childRows = <<>> THEN table
    ELSE CHOOSE final \in
            {mergeLoop(next, gs, childGroup, anchor, SubSeq(childRows, 1, Len(childRows) - 1)) :
                next \in {insertAfter(table, anchor,
                            applyGroupLevelToRow(gs, childRows[Len(childRows)], childGroup))}} :
            TRUE

\* Surface.prototype.mergeChildSurface(surface, mergeAfterRow), called by the
\* composite editor with its own row
MergeChildSurface(anchor) ==
    /\ "child" \in constructed
    /\ tableContainer["child"] = "child"
    /\ anchor \in 1..Len(tables["root"])
    /\ tables["root"][anchor].groupIndex = group["child"]
    /\ tables' = [tables EXCEPT
                    !["root"] = mergeLoop(@, groups, group["child"], anchor, tables["child"]),
                    !["child"] = <<>>]
    /\ tableContainer' = [tableContainer EXCEPT !["child"] = "root"]
    /\ lastOp' = Op("mergeChildSurface", "root")
    /\ UNCHANGED <<constructed, parsedProperties, editors, group, lifeVars, valueVars,
                   externalVars, groupVars>>

-----------------------------------------------------------------------------
(* The end of a surface, and the popups of its editors.                    *)

\* the most popups counted as open
MaxPopups == 2

\* Surface.prototype.disposeEditors: editor.dispose() on each editor in
\* order.  The dispose() of editor reaction.editor calls
\* setPropertyValue(reaction.property, reaction.value).
\* The dispose() of a composite editor disposes the child surface the editor
\* owns: the surfaces disposed that way, and the editors disposed in them.
RECURSIVE disposeEditors(_, _, _, _)
ownedSurfaces(s, i) ==
    {c \in constructed \ {s} :
        /\ editors[c] # "null"
        /\ editors[s][i].group # 0
        /\ group[c] = editors[s][i].group}

disposeOwned(s, i) ==
    IF ownedSurfaces(s, i) = {} THEN <<>>
    ELSE LET c == CHOOSE x \in ownedSurfaces(s, i) : TRUE
         IN  [k \in 1..Len(editors[c]) |-> Ev("dispose", editors[c][k].property, c)]

disposeNoEditors(st, s, reaction, i) == st

disposeEditors(st, s, reaction, i) ==
    IF i > Len(editors[s]) THEN st
    ELSE LET gone == [st EXCEPT
                        !.log = Append(@, Ev("dispose", editors[s][i].property, ""))
                                \o disposeOwned(s, i),
                        !.disposed = @ \cup ownedSurfaces(s, i)]
         IN  CHOOSE final \in
                {disposeEditors(next, s, reaction, i + 1) :
                    next \in {IF reaction.editor = i
                              THEN setPropertyValue(gone, s, reaction.property, reaction.value,
                                                    FALSE, NoReaction)
                              ELSE gone}} : TRUE

\* Surface.prototype.disposeExternalParameterEditors
disposeExternalParameterEditors(s) ==
    [i \in 1..Len(externalParameterEditors[s]) |->
        Ev("disposeExternal", externalParameterEditors[s][i].property, "")]

\* Surface.prototype.dispose: the callbacks of this.options are set to null
releaseCallbacksKept(opts) == opts

releaseCallbacks(opts) ==
    [opts EXCEPT !.onChange = FALSE, !.onPopupDisplayed = FALSE, !.onPopupHidden = FALSE]

\* Surface.prototype.dispose.  On a surface already disposed
\* this.tableContainer is null and disposeControls throws a TypeError.
Dispose(s, reaction) ==
    /\ s \in constructed
    /\ IF tableContainer[s] = "none"
       THEN /\ lastOp' = [Op("dispose", s) EXCEPT
                            !.thrown = "TypeError",
                            !.log = <<Ev("unregisterHandlers", "", "")>>]
            /\ UNCHANGED <<valueVars, parsedProperties, editors, externalVars, group,
                           tableContainer, container, options, tables>>
       ELSE /\ reaction.editor \in 0..Len(editors[s])
            /\ reaction.editor # 0 => reaction.property \in PropertyNames(parsedProperties[s])
            /\ LET st == disposeEditors(
                            [values |-> values[s], table |-> tables[tableContainer[s]],
                             log |-> <<Ev("unregisterHandlers", "", ""),
                                       Ev("disposeControls", "", "")>>,
                             disposed |-> {s}],
                            s, reaction, 1)
                   release(field, null) ==
                       [x \in Surfaces |-> IF x \in st.disposed THEN null ELSE field[x]]
               IN  /\ tables' = [tables EXCEPT ![tableContainer[s]] = st.table]
                   /\ lastOp' = [Op("dispose", s) EXCEPT
                                    !.reaction = reaction,
                                    !.log = st.log \o <<Ev("removeElements", "", "")>>
                                                   \o disposeExternalParameterEditors(s)]
                   /\ container' = release(container, "null")
                   /\ tableContainer' = release(tableContainer, "none")
                   /\ parsedProperties' = release(parsedProperties, "null")
                   /\ editors' = release(editors, "null")
                   /\ externalParameterEditors' = release(externalParameterEditors, "null")
                   /\ values' = release(values, "null")
                   /\ originalValues' = release(originalValues, "null")
                   /\ options' = [x \in Surfaces |->
                                    IF x \in st.disposed THEN releaseCallbacks(options[x])
                                    ELSE options[x]]
                   /\ group' = release(group, 0)
    /\ UNCHANGED <<constructed, popupCounter, groupVars>>

\* Surface.prototype.popupDisplayed
PopupDisplayed(s) ==
    /\ s \in constructed
    /\ popupCounter[s] < MaxPopups
    /\ popupCounter' = [popupCounter EXCEPT ![s] = @ + 1]
    /\ lastOp' = [Op("popupDisplayed", s) EXCEPT
                    !.log = IF popupCounter[s] = 0 /\ options[s].onPopupDisplayed
                            THEN <<Ev("onPopupDisplayed", "", "")>> ELSE <<>>]
    /\ UNCHANGED <<valueVars, externalVars, groupVars, tables, constructed, parsedProperties,
                   editors, group, tableContainer, container, options>>

\* Surface.prototype.popupHidden
PopupHidden(s) ==
    /\ s \in constructed
    /\ LET counter == IF popupCounter[s] - 1 < 0 THEN 0 ELSE popupCounter[s] - 1
       IN  /\ popupCounter' = [popupCounter EXCEPT ![s] = counter]
           /\ lastOp' = [Op("popupHidden", s) EXCEPT
                            !.log = IF counter = 0 /\ options[s].onPopupHidden
                                    THEN <<Ev("onPopupHidden", "", "")>> ELSE <<>>]
    /\ UNCHANGED <<valueVars, externalVars, groupVars, tables, constructed, parsedProperties,
                   editors, group, tableContainer, container, options>>

-----------------------------------------------------------------------------
\* the values a caller or an editor writes
WrittenValues == {Undefined, Num1, Str1, ObjA, removedProperty}

SetAny ==
    \E s \in Surfaces, p \in {"color", "size", "width"}, v \in WrittenValues, q \in BOOLEAN :
        SetPropertyValue(s, p, v, q)

ToggleAnyExternalEditor ==
    \E s \in Surfaces : \E i \in 1..Len(externalParameterEditors[s]) : ToggleExternalEditor(s, i)

ValidateAny ==
    \E s \in Surfaces :
        \E editorOk \in SUBSET PropertyNames(parsedProperties[s]),
           externalOk \in SUBSET {e.property : e \in
                                    {externalParameterEditors[s][i] :
                                        i \in 1..Len(externalParameterEditors[s])}} :
            Validate(s, editorOk, externalOk)

Next ==
    \/ SetAny
    \/ ToggleAnyExternalEditor
    \/ ValidateAny

Spec == Init /\ [][Next]_vars

\* a surface whose groups are built, expanded and collapsed
InitGroups ==
    \E props \in GroupSchemas :
        Construct(props, <<[key |-> "color", value |-> Num1]>>,
                  DefaultUndefinedValue(props), FALSE)

SetSome == SetPropertyValue("root", "color", Str1, FALSE)

NextGroups ==
    \/ \E r \in 1..Len(tables["root"]) : ToggleGroup(r)
    \/ \E g \in 1..Len(groups) : ExpandGroupParents(g)
    \/ \E i \in 1..Len(timers) : ToggleRow(i)
    \/ \E i \in 1..Len(editors["root"]), props \in ChildSchemas : ConstructChild(i, props, "null")
    \/ \E anchor \in 1..Len(tables["root"]) : MergeChildSurface(anchor)
    \/ SetSome

SpecGroups == InitGroups /\ [][NextGroups]_vars

\* a surface from its construction, which may fail, to its disposal
LifeSchemas ==
    { <<PropertyItem("color", "", StrFff, "string", FALSE),
        PropertyItem("size", "", Undefined, "", FALSE)>>,
      <<GroupItem("1"), PropertyItem("color", "1", StrFff, "string", FALSE),
        PropertyItem("size", "", Undefined, "set", FALSE)>>,
      <<PropertyItem("color", "", StrFff, "string", FALSE),
        PropertyItem("size", "", Undefined, "colour", FALSE)>>,
      <<PropertyItem("size", "", Undefined, "colour", FALSE),
        PropertyItem("color", "", StrFff, "string", FALSE)>> }

InitLife ==
    \E props \in LifeSchemas, vals \in {<<>>, <<[key |-> "color", value |-> Num1]>>},
       inspectorUniqueId \in BOOLEAN, callbacks \in BOOLEAN :
        Surface(props, vals, DefaultUndefinedValue(props), inspectorUniqueId,
                [DEFAULTS EXCEPT !.onChange = callbacks, !.onPopupDisplayed = callbacks,
                                 !.onPopupHidden = callbacks])

\* what an editor may do when told of a change or disposed
Reactions ==
    {NoReaction} \cup
    {[editor |-> i, property |-> "size", value |-> Num1] : i \in 1..2}

NextLife ==
    \/ \E p \in {"color", "size"}, v \in {Undefined, Num1}, q \in BOOLEAN, reaction \in Reactions :
          SetPropertyValueReacting("root", p, v, q, reaction)
    \/ \E reaction \in Reactions : Dispose("root", reaction)
    \/ PopupDisplayed("root")
    \/ PopupHidden("root")
    \/ \E r \in 1..Len(tables["root"]) : ToggleGroup(r)
    \/ \E i \in 1..Len(timers) : ToggleRow(i)

SpecLife == InitLife /\ [][NextLife]_vars

\* a surface built from two group markers, a property of each group and a
\* property of no group, in every order
BuildItems ==
    <<GroupItem("1"), GroupItem("2"),
      PropertyItem("color", "1", StrFff, "string", FALSE),
      PropertyItem("size", "2", Undefined, "string", FALSE),
      PropertyItem("width", "", Num1, "string", FALSE)>>

BuildSchemas ==
    {[i \in 1..Len(BuildItems) |-> BuildItems[order[i]]] :
        order \in {f \in [1..Len(BuildItems) -> 1..Len(BuildItems)] :
                      \A i, j \in 1..Len(BuildItems) : f[i] = f[j] => i = j}}

InitBuild ==
    \E props \in BuildSchemas :
        Construct(props, <<[key |-> "color", value |-> Num1]>>,
                  DefaultUndefinedValue(props), FALSE)

NextBuild ==
    \/ \E p \in {"color", "size"}, v \in {Num1, Str1}, q \in BOOLEAN :
          SetPropertyValue("root", p, v, q)
    \/ \E g \in 1..Len(groups) : ExpandGroupParents(g)

SpecBuild == InitBuild /\ [][NextBuild]_vars

\* a surface with a composite editor, whose child surface is constructed and
\* merged; parent and child may both have a property color
NestedSchemas ==
    { <<GroupItem("1"), PropertyItem("size", "1", Undefined, "object", FALSE),
        PropertyItem("color", "", StrFff, "string", FALSE)>>,
      <<PropertyItem("color", "", StrFff, "string", FALSE),
        PropertyItem("size", "", Undefined, "object", FALSE)>> }

InitNested ==
    \E props \in NestedSchemas, vals \in {<<>>, <<[key |-> "color", value |-> Num1]>>} :
        Construct(props, vals, DefaultUndefinedValue(props), FALSE)

NextNested ==
    \/ /\ container["root"] # "null"
       /\ \E i \in 1..Len(editors["root"]), props \in ChildSchemas,
             vals \in {"null", <<[key |-> "color", value |-> Num1]>>} :
              ConstructChild(i, props, vals)
    \/ \E anchor \in 1..Len(tables["root"]) : MergeChildSurface(anchor)
    \/ \E s \in Surfaces, p \in {"color", "width"}, v \in {Undefined, Num1, Str1} :
          SetPropertyValue(s, p, v, FALSE)
    \/ Dispose("root", NoReaction)

SpecNested == InitNested /\ [][NextNested]_vars

-----------------------------------------------------------------------------
(* Properties of the value model.                                          *)

\* the schema item of a property
Definition(s, p) ==
    CHOOSE d \in {parsedProperties[s][i] : i \in 1..Len(parsedProperties[s])} :
        d.itemType = "property" /\ d.property = p

SetJustReturned == lastOp.op = "setPropertyValue"

C2_RevertClearsChanges ==
    SetJustReturned /\ Structure(values[lastOp.surface]) = Structure(originalValues[lastOp.surface])
        => ~hasChanges(lastOp.surface)

\* C3: hasChanges() is false right after construction, and in every state it
\* is true exactly when the value map differs in structure from the snapshot.
C3_HasChangesIffDiffers ==
    \A s \in constructed :
        /\ lastOp.op = "new" => ~hasChanges(s)
        /\ hasChanges(s) <=> Structure(values[s]) # Structure(originalValues[s])

\* C4, as stated: a property with a schema default and no stored value, not
\* decided by an external editor, is reported with that default.
C4_DefaultReported ==
    \A s \in constructed :
        \A p \in PropertyNames(parsedProperties[s]) :
            /\ Definition(s, p).default # Undefined
            /\ getPropertyValue(s, p) = Undefined
            /\ ~externalVisible(s, p)
            => Lookup(getValues(s), p) = Definition(s, p).default

\* C4, amended: getValues() resolves each schema property as (1) the wrapped
\* expression of a visible external parameter editor, (2) else the stored
\* value, (3) else the undefined value its editor declares, whatever that is,
\* (4) the schema default only when no editor owns the property; a value of
\* (2)-(4) that is the removed marker leaves the property out.  The default is
\* reported for a property whose editor declares it, as the string editor does.
C4_Priority ==
    \A s \in constructed :
        /\ \A i \in 1..Len(getValues(s)) :
              getValues(s)[i].key \in PropertyNames(parsedProperties[s])
        /\ \A p \in PropertyNames(parsedProperties[s]) :
              LET e == findPropertyEditor(s, p)
                  stored == Lookup(values[s], p)
                  resolved ==
                      IF externalVisible(s, p) THEN WrapExternal(externalExpression(p))
                      ELSE IF stored # Undefined THEN stored
                      ELSE IF e # 0 THEN editors[s][e].undefinedValue
                      ELSE Definition(s, p).default
              IN  /\ e # 0
                  /\ IF resolved = removedProperty
                     THEN ~HasKey(getValues(s), p)
                     ELSE HasKey(getValues(s), p) /\ Lookup(getValues(s), p) = resolved
                  /\ Definition(s, p).type = "string" /\ stored = Undefined
                        /\ ~externalVisible(s, p)
                     => Lookup(getValues(s), p) = Definition(s, p).default

\* an external editor is visible for a property that has a stored value, and
\* the other property, with nothing stored, is resolved by its editor
C4_Witness ==
    /\ externalVisible("root", "color")
    /\ Lookup(values["root"], "color") = Num1
    /\ Lookup(getValues("root"), "color") = WrapExternal(externalExpression("color"))
    /\ "size" \in PropertyNames(parsedProperties["root"])
    /\ ~HasKey(values["root"], "size")
    /\ Lookup(getValues("root"), "size") = Num1

-----------------------------------------------------------------------------
(* Properties of validate().                                               *)

\* the authoritative validator of the editor of p passes
AuthoritativePasses(s, p) ==
    IF externalVisible(s, p) THEN p \in lastOp.externalOk ELSE p \in lastOp.editorOk

\* the validator validate() consults for editor i
Authoritative(s, i) ==
    <<IF externalVisible(s, editors[s][i].property) THEN "external" ELSE "editor",
      editors[s][i].property>>

\* the editors whose authoritative validator fails
Failing(s) == {i \in 1..Len(editors[s]) : ~AuthoritativePasses(s, editors[s][i].property)}

\* C5: validate() returns true iff the authoritative validator of every
\* editor passes: the external parameter editor when one is attached and
\* visible, and then the base editor is not consulted, the base editor
\* otherwise.
C5_ValidateIffAllPass ==
    lastOp.op = "validate" =>
        LET s == lastOp.surface
        IN  /\ lastOp.result <=> \A i \in 1..Len(editors[s]) :
                                    AuthoritativePasses(s, editors[s][i].property)
            /\ \A i \in 1..Len(editors[s]) :
                  externalVisible(s, editors[s][i].property) =>
                      \A j \in 1..Len(lastOp.called) :
                          lastOp.called[j] # <<"editor", editors[s][i].property>>

\* validate() returned true although the base editor of a property whose
\* external editor is visible would have failed
C5_Witness ==
    /\ lastOp.op = "validate"
    /\ lastOp.result
    /\ \E i \in 1..Len(editors[lastOp.surface]) :
          /\ externalVisible(lastOp.surface, editors[lastOp.surface][i].property)
          /\ editors[lastOp.surface][i].property \notin lastOp.editorOk

\* C6: validate() checks the editors in order and stops at the first that
\* fails: that editor alone is marked invalid, no later validator is invoked,
\* and false is returned; when none fails, none is marked.
C6_ShortCircuit ==
    lastOp.op = "validate" =>
        LET s == lastOp.surface
            first == CHOOSE i \in Failing(s) : \A j \in Failing(s) : i <= j
            last == IF Failing(s) = {} THEN Len(editors[s]) ELSE first
        IN  /\ lastOp.called = [i \in 1..last |-> Authoritative(s, i)]
            /\ lastOp.marked = (IF Failing(s) = {} THEN <<>> ELSE <<editors[s][first].property>>)
            /\ Failing(s) # {} => ~lastOp.result

\* two editors fail; the first alone was marked and the second never asked
C6_Witness ==
    /\ lastOp.op = "validate"
    /\ Cardinality(Failing(lastOp.surface)) = 2
    /\ Len(lastOp.marked) = 1
    /\ Len(lastOp.called) = 1

-----------------------------------------------------------------------------
(* Properties of the groups.                                               *)

GroupCall == {"toggleGroup", "expandGroupParents", "toggleRow"}

\* C7: toggleGroup on a group records a status for that group alone, so
\* collapsing a group and expanding it again leaves the expansion flag of
\* each group below it as it was before the collapse.
C7_ToggleKeepsDescendants ==
    /\ [](lastOp.op = "toggleGroup" /\ lastOp.before # <<>> =>
            \A h \in Descendants(groups, lastOp.group) : groupStatus[h] = lastOp.before[h])
    /\ [][lastOp'.op = "toggleGroup" =>
            /\ Len(groupStatus') = Len(groupStatus)
            /\ \A h \in 1..Len(groupStatus) :
                  h # lastOp'.group => groupStatus'[h] = groupStatus[h]]_vars

\* a group was collapsed and expanded again while a group below it was, and
\* still is, recorded collapsed
C7_Witness ==
    /\ lastOp.op = "toggleGroup"
    /\ lastOp.before # <<>>
    /\ groupStatus[lastOp.group]
    /\ \E h \in Descendants(groups, lastOp.group) : ~groupStatus[h] /\ ~lastOp.before[h]

\* C8: the root group, created by the root surface, has level 0; every group
\* build creates is a child of the group of the surface that builds it, one
\* level below it; and every group is one level below its parent.
C8_GroupLevels ==
    \A g \in 1..Len(groups) :
        /\ groups[g].by = "init" =>
              g = group["root"] /\ groups[g].parentGroup = 0 /\ getLevel(groups, g) = 0
        /\ groups[g].by \in Surfaces =>
              /\ groups[g].by \in constructed
              /\ groups[g].parentGroup = group[groups[g].by]
              /\ getLevel(groups, g) = getLevel(groups, group[groups[g].by]) + 1
        /\ groups[g].parentGroup # 0 =>
              getLevel(groups, g) = getLevel(groups, groups[g].parentGroup) + 1

\* the child surface has built a group three levels below the root group,
\* after the root surface built a group of level 1
C8_Witness ==
    /\ \E g \in 1..Len(groups) : groups[g].by = "child" /\ getLevel(groups, g) = 3
    /\ \E g \in 1..Len(groups) : groups[g].by = "root" /\ getLevel(groups, g) = 1

\* the rows a surface built, in the order of its schema
RowsOf(s) == SelectSeq(tables[tableContainer[s]], LAMBDA row : row.surface = s)

\* C9: a property item with no groupIndex is built, row and editor, under the
\* group of its surface, which is level 0 on the root surface, whatever group
\* markers come before it.
C9_UngroupedUnderOwnGroup ==
    \A s \in constructed :
        /\ Len(RowsOf(s)) = Len(parsedProperties[s])
        /\ \A i \in 1..Len(parsedProperties[s]) :
              LET item == parsedProperties[s][i]
              IN  item.itemType = "property" /\ item.groupIndex = "" =>
                    /\ editors[s][findPropertyEditor(s, item.property)].parentGroup = group[s]
                    /\ RowsOf(s)[i].property = item.property
                    /\ RowsOf(s)[i].level = getLevel(groups, group[s])
                    /\ s = "root" => RowsOf(s)[i].level = 0

\* the root surface built a property with no groupIndex after a group marker,
\* and the child surface built one under its own group
C9_Witness ==
    /\ \E i \in 1..Len(parsedProperties["root"]) :
          /\ parsedProperties["root"][i].itemType = "property"
          /\ parsedProperties["root"][i].groupIndex = ""
          /\ \E j \in 1..(i - 1) : parsedProperties["root"][j].itemType = "group"
    /\ "child" \in constructed
    /\ \E i \in 1..Len(parsedProperties["child"]) :
          /\ parsedProperties["child"][i].itemType = "property"
          /\ parsedProperties["child"][i].groupIndex = ""
          /\ RowsOf("child")[i].level = 2

\* C10: toggleGroup, expandGroupParents and the deferred row steps leave
\* values, originalValues, getValues() and hasChanges() as they were.
C10_GroupsLeaveValues ==
    [][lastOp'.op \in GroupCall =>
        /\ values' = values
        /\ originalValues' = originalValues
        /\ \A s \in Surfaces :
              /\ getValues(s)' = getValues(s)
              /\ hasChanges(s)' = hasChanges(s)]_vars

\* a deferred row step ran on a surface whose values have been changed
C10_Witness ==
    /\ lastOp.op = "toggleRow"
    /\ hasChanges("root")
    /\ Lookup(getValues("root"), "color") = Str1
    /\ \E t \in Surfaces : \E i \in 1..Len(tables[t]) : tables[t][i].cls = "collapsed"

-----------------------------------------------------------------------------
(* Properties of construction and disposal.                                *)

\* the positions of the property items whose type is no registered editor
\* class (an absent type is a string)
Unregistered(props) ==
    {i \in 1..Len(props) :
        props[i].itemType = "property" /\ props[i].type \notin propertyEditors \cup {""}}

\* the property names of the items before position n
NamesBefore(props, n) ==
    LET before == SelectSeq(SubSeq(props, 1, n - 1), LAMBDA d : d.itemType = "property")
    IN  [i \in 1..Len(before) |-> before[i].property]

\* C11, as stated: when the constructor throws, no editor has been
\* instantiated and the table is not in the caller's container.
C11_ThrowsBeforeAnyEditor ==
    lastOp.op = "new" /\ lastOp.thrown = "Error" =>
        /\ editors["root"] = <<>>
        /\ container["root"] # "attached"

\* C11, amended: the constructor throws exactly when inspectorUniqueId is
\* undefined or a property has a type that is no registered editor class (an
\* absent type is 'string'); it throws out of the constructor, so that the
\* caller gets no surface, before the table is attached to the container and
\* before an editor is made for the offending property or any later one.  The
\* editors of the properties before the offending one have been instantiated
\* by then; none has when inspectorUniqueId is undefined.
C11_ThrowsAtBuild ==
    lastOp.op = "new" /\ lastOp.surface = "root" =>
        LET props == parsedProperties["root"]
            bad == Unregistered(props)
            first == CHOOSE i \in bad : \A j \in bad : i <= j
        IN  /\ lastOp.thrown = "Error" <=> (~lastOp.flag \/ bad # {})
            /\ lastOp.thrown = "Error" =>
                  /\ constructed = {}
                  /\ container["root"] # "attached"
                  /\ ~lastOp.flag => editors["root"] = <<>> /\ tables["root"] = <<>>
                  /\ lastOp.flag =>
                        [i \in 1..Len(editors["root"]) |-> editors["root"][i].property]
                            = NamesBefore(props, first)
            /\ lastOp.thrown = "" =>
                  /\ constructed = {"root"}
                  /\ container["root"] = "attached"
                  /\ Len(editors["root"]) = Cardinality(PropertyNames(props))

\* the constructor threw on the type of the second property, after the editor
\* of the first was instantiated
C11_Witness ==
    /\ lastOp.op = "new"
    /\ lastOp.thrown = "Error"
    /\ lastOp.flag
    /\ Len(editors["root"]) = 1
    /\ container["root"] = "detached"

\* dispose() has completed on the surface
Disposed(s) == s \in constructed /\ container[s] = "null"

\* the steps of a call that notify an editor, invoke a callback of the caller,
\* write a value or dispose an editor
Loud(log) ==
    {i \in 1..Len(log) :
        log[i].ev \in {"notify", "onChange", "onPopupDisplayed", "onPopupHidden",
                       "write", "mark", "dispose", "disposeExternal"}}

\* C12: once dispose() has completed, a further setPropertyValue, toggleGroup
\* or dispose is rejected (it throws before changing anything) and a further
\* popupDisplayed or popupHidden invokes nothing: no editor is notified, no
\* callback of the caller is invoked and no value is written.
C12_DisposedIsInert ==
    [][Disposed("root") =>
        /\ Disposed("root")'
        /\ values' = values /\ originalValues' = originalValues
        /\ editors' = editors /\ options' = options
        /\ Loud(lastOp'.log) = {}
        /\ lastOp'.op \in {"setPropertyValue", "toggleGroup", "dispose"} =>
              lastOp'.thrown = "TypeError" /\ tables' = tables /\ groupStatus' = groupStatus
        /\ lastOp'.op \in {"popupDisplayed", "popupHidden"} => lastOp'.thrown = ""]_vars

\* a value was written, with change events, to a disposed surface whose popup
\* counter is not zero
C12_Witness ==
    /\ Disposed("root")
    /\ lastOp.op = "setPropertyValue"
    /\ lastOp.value = Num1
    /\ ~lastOp.flag
    /\ lastOp.thrown = "TypeError"
    /\ popupCounter["root"] > 0

\* the place of a step of dispose in the order handlers, controls, editors,
\* elements, external editors
Phase(ev) ==
    CASE ev = "unregisterHandlers" -> 1
      [] ev = "disposeControls" -> 2
      [] ev = "removeElements" -> 4
      [] ev = "disposeExternal" -> 5
      [] OTHER -> 3

\* C13: dispose() releases handlers, controls, editors, elements and external
\* editors in that order, and no editor whose dispose() has been called is
\* told of a property change afterwards, also when the dispose() of another
\* editor calls setPropertyValue.
C13_NoDisposedEditorNotified ==
    lastOp.op = "dispose" /\ lastOp.thrown = "" =>
        \A i, j \in 1..Len(lastOp.log) :
            i < j =>
                /\ Phase(lastOp.log[i].ev) <= Phase(lastOp.log[j].ev)
                /\ ~(/\ lastOp.log[i].ev = "dispose"
                     /\ lastOp.log[j].ev = "notify"
                     /\ lastOp.log[j].who = lastOp.log[i].who)

-----------------------------------------------------------------------------
(* Properties of the changed marker and of the order of a value change.    *)

\* the row of a property in the table of a surface
RowOfProperty(s, property) ==
    LET table == tables[tableContainer[s]]
    IN  table[CHOOSE i \in 1..Len(table) :
                 /\ table[i].property = property
                 /\ \A j \in 1..(i - 1) : table[j].property # property]

\* C14: after a setPropertyValue(p, v) with change events, the row of p is
\* marked changed exactly when v differs from originalValues[p], compared
\* structurally for composite values and by equality otherwise.
C14_ChangedIffDiffers ==
    (/\ lastOp.op = "setPropertyValue"
     /\ lastOp.thrown = ""
     /\ ~lastOp.flag) =>
        (RowOfProperty(lastOp.surface, lastOp.property).changed
            <=> ~comparePropertyValues(Lookup(originalValues[lastOp.surface], lastOp.property),
                                       lastOp.value))

\* what a setPropertyValue(property, ...) with change events does when no
\* editor reacts: the write, the marker, every editor told once in editor
\* order, then the change callback if there is one
Settled(s, property) ==
    <<Ev("write", "", property), Ev("mark", "", property)>>
    \o [i \in 1..Len(editors[s]) |-> Ev("notify", editors[s][i].property, property)]
    \o (IF options[s].onChange THEN <<Ev("onChange", "", property)>> ELSE <<>>)

\* the same when editor number e answers its notification with
\* setPropertyValue(reaction.property, ...): the whole inner call lies
\* between the notification of editor e and that of editor e + 1
SettledReacting(s, property, reaction) ==
    LET outer == Settled(s, property)
        e == reaction.editor
    IN  IF e = 0 THEN outer
        ELSE SubSeq(outer, 1, 2 + e)
             \o Settled(s, reaction.property)
             \o SubSeq(outer, 3 + e, Len(outer))

\* C15: a setPropertyValue(name, value) with change events writes the value
\* map, then tells every editor once in editor order, the editor of name
\* included, then invokes onChange if it is set, all before it returns and
\* also when an editor calls setPropertyValue from its notification; a call
\* without change events writes the value map and does nothing else.
C15_SettledBeforeReturn ==
    (/\ lastOp.op = "setPropertyValue"
     /\ lastOp.thrown = "") =>
        LET s == lastOp.surface
        IN  /\ lastOp.log = IF lastOp.flag THEN <<Ev("write", "", lastOp.property)>>
                            ELSE SettledReacting(s, lastOp.property, lastOp.reaction)
            /\ Lookup(values[s], IF lastOp.reaction.editor # 0 /\ ~lastOp.flag
                                 THEN lastOp.reaction.property ELSE lastOp.property)
                  = IF lastOp.reaction.editor # 0 /\ ~lastOp.flag
                    THEN lastOp.reaction.value ELSE lastOp.value

\* the second of two editors answered the change of color by writing size,
\* and the change callback was invoked twice
C15_Witness ==
    /\ lastOp.op = "setPropertyValue"
    /\ lastOp.thrown = ""
    /\ ~lastOp.flag
    /\ lastOp.property = "color"
    /\ lastOp.reaction.editor = 2
    /\ Len(editors["root"]) = 2
    /\ options["root"].onChange
    /\ Len(lastOp.log) = 10
    /\ Lookup(values["root"], "size") = Num1

-----------------------------------------------------------------------------
(* Properties of expanding and collapsing.                                 *)

\* the rows, of any table, that carry an expand control
ControlRows ==
    UNION {{tables[t][i] : i \in {j \in 1..Len(tables[t]) : tables[t][j].link # "none"}} :
              t \in DOMAIN tables}

\* C16: a group starts expanded; toggleGroup(row) flips the recorded state of
\* the group of the row and toggleGroup(row, true), as expandGroupParents
\* calls it, leaves the group expanded whatever it was; and in every state the
\* expand control of a row has the class 'expanded' exactly when the group
\* manager records the group of the row as expanded.
C16_GroupStateMachine ==
    /\ \A g \in 1..Len(groupStatus) : groupStatus[g]
    /\ [](\A row \in ControlRows : row.link = "expanded" <=> groupStatus[row.groupIndex])
    /\ [][/\ \A g \in (Len(groupStatus) + 1)..Len(groupStatus') : groupStatus'[g]
          /\ lastOp'.op = "toggleGroup" =>
                groupStatus'[lastOp'.group] = ~groupStatus[lastOp'.group]
          /\ lastOp'.op = "expandGroupParents" =>
                \A h \in 1..Len(groups) :
                    (\E i \in 1..Len(getGroupAndAllParents(groups, lastOp'.group)) :
                        /\ getGroupAndAllParents(groups, lastOp'.group)[i] = h
                        /\ findGroupRow(tables["root"], h) # 0)
                    => groupStatus'[h]]_vars

\* toggleGroup found the control of a group expanded and collapsed the group,
\* while a group toggled before it stays collapsed
C16_Witness ==
    /\ lastOp.op = "toggleGroup"
    /\ lastOp.flag
    /\ ~groupStatus[lastOp.group]
    /\ \E row \in ControlRows : row.groupIndex = lastOp.group /\ row.link = ""
    /\ \E row \in ControlRows : row.groupIndex # lastOp.group /\ row.link = ""

\* the class of the row with an id, in whatever table it is
ClassOfRow(id) ==
    LET t == CHOOSE u \in DOMAIN tables : \E i \in 1..Len(tables[u]) : tables[u][i].id = id
        i == CHOOSE j \in 1..Len(tables[t]) : tables[t][j].id = id
    IN  tables[t][i].cls

\* C17 as stated: an animated toggle records the new status of the group only
\* after its rows have finished animating, so a toggleGroup that leaves a
\* deferred row step pending has not recorded the new status.
C17_StatusAfterAnimation ==
    [][(/\ lastOp'.op = "toggleGroup"
        /\ lastOp'.thrown = ""
        /\ Len(timers') > Len(timers))
       => groupStatus'[lastOp'.group] = groupStatus[lastOp'.group]]_vars

\* C17, amended: an animated toggleGroup records the new status of the group
\* before it returns, when the first deferred row step is pending and no row
\* has changed its class; the deferred row steps change no status.
C17_StatusBeforeAnimation ==
    [][/\ (lastOp'.op = "toggleGroup" /\ lastOp'.thrown = "") =>
            /\ groupStatus'[lastOp'.group] = ~lastOp'.flag
            /\ groupStatus[lastOp'.group] = lastOp'.flag
            /\ \A t \in DOMAIN tables : \A i \in 1..Len(tables[t]) :
                  tables'[t][i].cls = tables[t][i].cls
            /\ Len(timers') > Len(timers) =>
                  timers'[Len(timers')].collapse = lastOp'.flag
       /\ lastOp'.op = "toggleRow" => groupStatus' = groupStatus]_vars

\* a group is recorded collapsed while the first deferred step of its toggle
\* is pending and the row of that step is not collapsed yet
C17_Witness ==
    /\ lastOp.op = "toggleGroup"
    /\ lastOp.flag
    /\ ~groupStatus[lastOp.group]
    /\ timers # <<>>
    /\ timers[Len(timers)].collapse
    /\ ClassOfRow(timers[Len(timers)].row) # "collapsed"

\* C18: however toggleGroup calls interleave with the deferred row steps of
\* earlier toggles, once no step is pending every row has the class that the
\* same toggles, made in the same order without animation, would have left.
C18_SameAsWithoutAnimation ==
    timers = <<>> =>
        \A t \in DOMAIN tables : \A i \in 1..Len(tables[t]) :
            tables[t][i].cls = instantClass[tables[t][i].id]

Reverse(seq) == [i \in 1..Len(seq) |-> seq[Len(seq) + 1 - i]]

\* the groups above a group, the outermost first
Ancestors(g) == Reverse(Tail(getGroupAndAllParents(groups, g)))

\* the members of order that are in among, in the order of order
Among(order, among) ==
    SelectSeq(order, LAMBDA h : \E i \in 1..Len(among) : among[i] = h)

\* C19 as stated: expandGroupParents(group) force-expands the ancestors of the
\* group, the outermost first, and sets no timer; afterwards every ancestor
\* is recorded expanded and every other group is recorded as it was.
C19_OnlyAncestorsExpanded ==
    [][lastOp'.op = "expandGroupParents" =>
         LET above == Ancestors(lastOp'.group)
         IN  /\ timers' = timers
             /\ Among(above, lastOp'.called) = Among(lastOp'.called, above)
             /\ \A h \in 1..Len(groups) :
                   IF \E i \in 1..Len(above) : above[i] = h
                   THEN groupStatus'[h]
                   ELSE groupStatus'[h] = groupStatus[h]]_vars

\* C19, amended: expandGroupParents(group) calls toggleGroup(row, true) for
\* the group itself and for each of its ancestors that has a row, from the
\* outermost down to the group itself, and sets no timer; afterwards the
\* group and its ancestors are recorded expanded and every other group is
\* recorded as it was.
C19_GroupAndAncestorsExpanded ==
    [][lastOp'.op = "expandGroupParents" =>
         LET g == lastOp'.group
             all == Ancestors(g) \o <<g>>
         IN  /\ timers' = timers
             /\ lastOp'.called =
                   SelectSeq(all, LAMBDA h : findGroupRow(tables["root"], h) # 0)
             /\ \A h \in 1..Len(groups) :
                   IF \E i \in 1..Len(all) : all[i] = h
                   THEN groupStatus'[h]
                   ELSE groupStatus'[h] = groupStatus[h]]_vars

\* expandGroupParents was called for a collapsed group below a group with a
\* row, and a group that is not above it stays collapsed
C19_Witness ==
    /\ lastOp.op = "expandGroupParents"
    /\ lastOp.flag
    /\ Len(lastOp.called) >= 2
    /\ groupStatus[lastOp.group]
    /\ \E h \in 1..Len(groups) : ~groupStatus[h]

-----------------------------------------------------------------------------
(* Properties of the placement of grouped properties.                      *)

\* the group build created for the marker with a groupIndex, 0 if none
GroupOfMarker(s, groupIndex) ==
    IF \E g \in 1..Len(groups) : groups[g].by = s /\ groups[g].index = groupIndex
    THEN CHOOSE g \in 1..Len(groups) : groups[g].by = s /\ groups[g].index = groupIndex
    ELSE 0

\* the editor of a property
EditorOf(s, property) ==
    editors[s][CHOOSE i \in 1..Len(editors[s]) : editors[s][i].property = property]

\* C20: build places a property item with a groupIndex k, its row and its
\* editor, under the group created for the group marker with groupIndex k,
\* wherever that marker stands in the parsed list.
C20_UnderGroupOfItsIndex ==
    \A s \in constructed :
        \A i \in 1..Len(parsedProperties[s]) :
            LET item == parsedProperties[s][i]
            IN  (item.itemType = "property" /\ item.groupIndex # "") =>
                    /\ GroupOfMarker(s, item.groupIndex) # 0
                    /\ RowsOf(s)[i].parentGroupIndex = GroupOfMarker(s, item.groupIndex)
                    /\ EditorOf(s, item.property).parentGroup
                          = GroupOfMarker(s, item.groupIndex)

-----------------------------------------------------------------------------
(* Properties of nested surfaces.                                          *)

\* the ids of the rows of a table, in document order
RowIds(table) == [i \in 1..Len(table) |-> table[i].id]

\* C21: mergeChildSurface leaves in the parent's table the rows up to and
\* including the anchor, then the rows of the child in the child's order,
\* then the rows that followed the anchor, each row once; and the child
\* surface then holds the table container of the root surface.
C21_MergeSplicesInOrder ==
    [][lastOp'.op = "mergeChildSurface" =>
         LET anchor == findGroupRow(tables["root"], group["child"])
         IN  /\ anchor # 0
             /\ RowIds(tables'["root"]) =
                   RowIds(SubSeq(tables["root"], 1, anchor))
                   \o RowIds(tables["child"])
                   \o RowIds(SubSeq(tables["root"], anchor + 1, Len(tables["root"])))
             /\ \A i, j \in 1..Len(tables'["root"]) :
                   tables'["root"][i].id = tables'["root"][j].id => i = j
             /\ tables'["child"] = <<>>
             /\ tableContainer'["child"] = tableContainer["root"]]_vars

\* a child of two rows was merged between the row of its editor and a row
\* of the parent that followed it
C21_Witness ==
    /\ lastOp.op = "mergeChildSurface"
    /\ tableContainer["child"] = "root"
    /\ \E i \in 1..Len(tables["root"]) :
          /\ i + 3 <= Len(tables["root"])
          /\ tables["root"][i].groupIndex = group["child"]
          /\ tables["root"][i + 1].surface = "child"
          /\ tables["root"][i + 2].surface = "child"
          /\ tables["root"][i + 1].id < tables["root"][i + 2].id
          /\ tables["root"][i + 3].surface = "root"

AllRows == UNION {{tables[t][i] : i \in 1..Len(tables[t])} : t \in DOMAIN tables}

\* the level of the group a property row was built under: a row with no
\* data-parent-group-index was built under a group that has no parent
LevelBuiltUnder(row) ==
    IF row.parentGroupIndex = 0 THEN 0 ELSE getLevel(groups, row.parentGroupIndex)

\* no step changes the data-group-level of a row
LevelsKept ==
    \A t \in DOMAIN tables : \A i \in 1..Len(tables[t]) :
        \A u \in DOMAIN tables : \A j \in 1..Len(tables'[u]) :
            tables'[u][j].id = tables[t][i].id => tables'[u][j].level = tables[t][i].level

\* C23 as stated: build tags every row, the row of a group marker like the
\* row of a property, with the level of the group the item was resolved
\* under, which for a marker is the group made for it; and no later step
\* changes the level of a row.
C23_LevelOfResolvedGroup ==
    /\ [](\A row \in AllRows :
            row.level = IF row.itemType = "group" THEN getLevel(groups, row.groupIndex)
                        ELSE LevelBuiltUnder(row))
    /\ [][LevelsKept]_vars

\* C23, amended: build tags the row of a property with the level of the
\* group the property was resolved under and the row of a group marker with
\* the level of the parent of the group made for it; and no later step,
\* mergeChildSurface included, changes the level of a row.
C23_LevelOnceSet ==
    /\ [](\A row \in AllRows :
            row.level = IF row.itemType = "group"
                        THEN getLevel(groups, groups[row.groupIndex].parentGroup)
                        ELSE LevelBuiltUnder(row))
    /\ [][LevelsKept]_vars

\* a child surface was merged whose property row has a level other than
\* that of the child's own group, next to the row of a marker of the child
C23_Witness ==
    /\ lastOp.op = "mergeChildSurface"
    /\ \E row \in AllRows :
          /\ row.surface = "child"
          /\ row.itemType = "property"
          /\ row.level # getLevel(groups, group["child"])
    /\ \E row \in AllRows :
          /\ row.surface = "child"
          /\ row.itemType = "group"
          /\ row.level = getLevel(groups, group["child"])

-----------------------------------------------------------------------------
(* Properties of the popup counter.                                        *)

\* a call invoked the callback named
Invoked(op, callback) ==
    \E k \in 1..Len(op.log) : op.log[k].ev = callback

\* C24: popupCounter is never negative, and onPopupDisplayed and
\* onPopupHidden are invoked in turn, onPopupDisplayed first.  The first is
\* invoked only when the counter leaves 0, so the turns are kept exactly when
\* onPopupHidden is invoked only by a popupHidden that found a popup counted.
C24_CallbacksAlternate ==
    /\ [](\A s \in Surfaces : popupCounter[s] >= 0)
    /\ [][/\ Invoked(lastOp', "onPopupDisplayed") =>
                popupCounter[lastOp'.surface] = 0 /\ popupCounter'[lastOp'.surface] = 1
          /\ Invoked(lastOp', "onPopupHidden") =>
                popupCounter[lastOp'.surface] = 1 /\ popupCounter'[lastOp'.surface] = 0]_vars

\* C25: once the child surface is merged, a setPropertyValue on the child
\* changes the value map of the child and the changed marker of the child's
\* own row of that property and nothing of the parent: not its values, not
\* its hasChanges(), not the changed marker of any of its rows, also when the
\* parent has a property of the same name.
C25_ChildLeavesParent ==
    [][(/\ lastOp'.op = "setPropertyValue"
        /\ lastOp'.surface = "child"
        /\ lastOp'.thrown = ""
        /\ tableContainer["child"] = "root") =>
         /\ values'["root"] = values["root"]
         /\ originalValues'["root"] = originalValues["root"]
         /\ hasChanges("root")' = hasChanges("root")
         /\ Len(tables'["root"]) = Len(tables["root"])
         /\ \A i \in 1..Len(tables["root"]) :
               (tables["root"][i].surface = "root"
                   \/ tables["root"][i].property # lastOp'.property)
               => tables'["root"][i].changed = tables["root"][i].changed]_vars

====
